---- MODULE Spec2Model ----
(***************************************************************************)
(* export-confluence.py: batch export of Confluence pages to PDF.          *)
(*                                                                         *)
(* Strings are sequences of chunks.  A page URL's path is a sequence of    *)
(* single characters, because the script splits and sanitizes it           *)
(* character by character; other strings (base URL, messages, bodies) are  *)
(* sequences of larger literal chunks.  A Python value that may be None is *)
(* a tagged record (None / Str(s)).                                        *)
(***************************************************************************)
EXTENDS Integers, Sequences, FiniteSets, TLC

(* ----------------------------- bounds ---------------------------------- *)
MaxPages == 2
MaxTimeout == 2
MaxInterval == 2

(* ------------------------- Python values ------------------------------- *)
None == [t |-> "None"]
Str(s) == [t |-> "str", v |-> s]
\* Mutant of Truthy: only None is falsy (the test "is not None").
TruthyNotNone(x) == x.t = "str"

\* Python truthiness of an optional string: None and "" are falsy.
Truthy(x) == x.t = "str" /\ x.v # << >>

Range(s) == {s[k] : k \in 1..Len(s)}

\* s[from:] of a sequence, 1-based.
Drop(s, n) == SubSeq(s, n + 1, Len(s))

StartsWith(s, p) == Len(s) >= Len(p) /\ SubSeq(s, 1, Len(p)) = p

\* str.find: the first index at which sep occurs in s, 0 when it does not.
Find(s, sep) ==
  LET hits == {k \in 1..(Len(s) - Len(sep) + 1) : SubSeq(s, k, k + Len(sep) - 1) = sep}
  IN IF hits = {} THEN 0 ELSE CHOOSE k \in hits : \A j \in hits : k <= j

\* str.split(sep): the pieces of s between the occurrences of sep.
RECURSIVE Split(_, _)
Split(s, sep) ==
  LET k == Find(s, sep)
  IN IF k = 0 THEN << s >>
     ELSE << SubSeq(s, 1, k - 1) >> \o Split(Drop(s, k + Len(sep) - 1), sep)

(* --------------------------- configuration ----------------------------- *)
BASE_URL == << "https://h" >>
EXPORT_DIR == << "exported" >>
USERNAME == "user"
PASSWORD == "pass"

\* requests.Session() with session.auth set.
session == [auth |-> << USERNAME, PASSWORD >>]
NoAuth == << >>

(* ------------------------- sanitize_filename --------------------------- *)
Digits == {"0", "1", "2", "3", "4", "5", "6", "7", "8", "9"}
HexDigits == Digits \cup {"A", "B", "C", "D", "E", "F", "a", "b", "c", "d", "e", "f"}
Letters == {"a", "b", "c", "d", "e", "f", "g", "h", "i", "j", "k", "l", "m",
            "n", "o", "p", "q", "r", "s", "t", "u", "v", "w", "x", "y", "z",
            "A", "B", "C", "D", "E", "F", "G", "H", "I", "J", "K", "L", "M",
            "N", "O", "P", "Q", "R", "S", "T", "U", "V", "W", "X", "Y", "Z"}

\* The character a percent escape %h1h2 stands for (the escapes the page
\* titles of this model use; any other byte decodes to a character that is
\* not alphanumeric).
DecodeHex(h1, h2) ==
  CASE << h1, h2 >> = << "2", "0" >> -> " "
    [] << h1, h2 >> = << "2", "F" >> -> "/"
    [] << h1, h2 >> = << "4", "1" >> -> "A"
    [] << h1, h2 >> = << "5", "F" >> -> "_"
    [] OTHER -> "?"

\* urllib.parse.unquote: every %XX with two hex digits is decoded, anything
\* else is kept.
RECURSIVE unquote(_)
unquote(s) ==
  IF s = << >> THEN << >>
  ELSE IF s[1] = "%" /\ Len(s) >= 3 /\ s[2] \in HexDigits /\ s[3] \in HexDigits
       THEN << DecodeHex(s[2], s[3]) >> \o unquote(Drop(s, 3))
       ELSE << s[1] >> \o unquote(Tail(s))

sanitize_filename(name) ==
  LET decoded == unquote(name)
  IN [k \in 1..Len(decoded) |->
        IF decoded[k] \in Letters \cup Digits \cup {"_", "-"} THEN decoded[k] ELSE "_"]

(* ------------------------------ page URLs ------------------------------ *)
\* A page URL: its network location and its path (query and fragment are
\* not part of parsed.path and are left out).
Url(netloc, path) == [netloc |-> netloc, path |-> path]

\* https://h/w/pages/12/T%20a
UrlTitleEscaped ==
  Url(<< "h" >>, << "/", "w", "/", "p", "a", "g", "e", "s", "/", "1", "2", "/", "T", "%", "2", "0", "a" >>)
\* https://h/w/pages/7/T_a
UrlTitlePlain ==
  Url(<< "h" >>, << "/", "w", "/", "p", "a", "g", "e", "s", "/", "7", "/", "T", "_", "a" >>)
\* https://h/w/display/T
UrlNoPages ==
  Url(<< "h" >>, << "/", "w", "/", "d", "/", "T" >>)
\* https://h/w/pages/
UrlPagesOnly ==
  Url(<< "h" >>, << "/", "w", "/", "p", "a", "g", "e", "s", "/" >>)
\* https://[h/w/pages/3/T : urlparse raises ValueError("Invalid IPv6 URL")
UrlBadNetloc ==
  Url(<< "[", "h" >>, << "/", "w", "/", "p", "a", "g", "e", "s", "/", "3", "/", "T" >>)

\* https://h/pages/5/pages/6/T : the marker occurs twice
UrlTwoMarkers ==
  Url(<< "h" >>, << "/", "p", "a", "g", "e", "s", "/", "5", "/", "p", "a", "g", "e", "s", "/", "6", "/", "T" >>)
\* https://h/w/pages/9 : the identifier ends the path
UrlIdLast ==
  Url(<< "h" >>, << "/", "w", "/", "p", "a", "g", "e", "s", "/", "9" >>)
\* https://h/w/pages : the last segment is "pages", without the marker
UrlPagesNoSlash ==
  Url(<< "h" >>, << "/", "w", "/", "p", "a", "g", "e", "s" >>)
\* https://h/xpages/8/T : "pages/" inside a longer segment
UrlInsideSegment ==
  Url(<< "h" >>, << "/", "x", "p", "a", "g", "e", "s", "/", "8", "/", "T" >>)

\* The lines of pages.txt of the batch.
PageUrls == {UrlTitleEscaped, UrlNoPages, UrlPagesOnly, UrlBadNetloc}
\* Two pages whose titles differ.
TitleUrls == {UrlTitleEscaped, UrlTitlePlain}
\* The URLs the page id extraction is checked on.
ResolverUrls ==
  PageUrls \cup TitleUrls \cup {UrlTwoMarkers, UrlIdLast, UrlPagesNoSlash, UrlInsideSegment}

\* urlparse(page_url) raises ValueError when the brackets of the network
\* location do not match.
UrlparseRaises(u) == ("[" \in Range(u.netloc)) # ("]" \in Range(u.netloc))

SepPages == << "/", "p", "a", "g", "e", "s", "/" >>
Slash == << "/" >>

\* parsed.path.split("/pages/")[1] raises IndexError when there is no
\* second piece.
PageIdMissing(u) == Len(Split(u.path, SepPages)) < 2
\* Mutant of PageId: the second split is forgotten.
PageIdKeepsRest(u) == Split(u.path, SepPages)[2]
PageId(u) == Split(Split(u.path, SepPages)[2], Slash)[1]

\* parsed.path.split("/")[-1]
LastSegment(u) == LET parts == Split(u.path, Slash) IN parts[Len(parts)]

Filename(u) == EXPORT_DIR \o << "/" >> \o sanitize_filename(LastSegment(u)) \o << ".pdf" >>

(* ------------------------------ requests ------------------------------- *)
CsrfHeader == "X-Atlassian-Token: no-check"
FetchSiteHeader == "Sec-Fetch-Site: cross-site"

\* session.get(url, headers=...): a request that carries the session's
\* credentials.
SessionGet(to, url, headers) ==
  [to |-> to, url |-> url, auth |-> session.auth, headers |-> headers]
\* requests.get(url, headers=...): a request outside the session.
RequestsGet(to, url, headers) ==
  [to |-> to, url |-> url, auth |-> NoAuth, headers |-> headers]

ExportUrl(pid) ==
  BASE_URL \o << "/wiki/spaces/flyingpdf/pdfpageexport.action?pageId=" >> \o pid
ProgressUrl(tid) ==
  BASE_URL \o << "/wiki/services/api/v1/task/" >> \o tid \o << "/progress" >>

ExportRequest(pid) == SessionGet("export", ExportUrl(pid), {CsrfHeader})
ProgressRequest(tid) == SessionGet("progress", ProgressUrl(tid), {CsrfHeader})
ResultRequest(url) == SessionGet("result", url, {CsrfHeader})
\* Mutant of S3Request: the download goes through the session.
S3RequestThroughSession(url) == SessionGet("s3", url, {FetchSiteHeader})
S3Request(url) == RequestsGet("s3", url, {FetchSiteHeader})

(* ------------------------ what the servers answer ---------------------- *)
StatusCodes == {200, 304, 500}
TaskIds == {<< "t1" >>}

\* soup.find("meta", {"name": "ajs-taskId"}): no tag, a tag without content,
\* a tag with empty content, a tag naming the task.
Tag(content) == [t |-> "meta", content |-> content]
MetaTags == {None, Tag(None), Tag(Str(<< >>))} \cup {Tag(Str(tid)) : tid \in TaskIds}
MetaHasTaskId(meta) == meta.t = "meta" /\ Truthy(meta.content)

RelativeResult == << "/", "r" >>
AbsoluteResult == << "https://h/r" >>

\* JSON bodies of the progress endpoint; a field may be missing.
ProgressBodies ==
  { [progress |-> 40, state |-> "running"],
    [state |-> "done", result |-> RelativeResult],
    [progress |-> 100, state |-> "done"],
    [progress |-> 100, state |-> "done", result |-> << >>],
    [progress |-> 100, state |-> "done", result |-> RelativeResult],
    [progress |-> 100, result |-> AbsoluteResult] }

\* data.get("progress", 0), data.get("state", ""), data.get("result")
\* Mutant of GetProgress: a body without progress counts as finished.
GetProgressDefaultComplete(body) == IF "progress" \in DOMAIN body THEN body.progress ELSE 100
GetProgress(body) == IF "progress" \in DOMAIN body THEN body.progress ELSE 0
GetState(body) == IF "state" \in DOMAIN body THEN body.state ELSE ""
GetResult(body) == IF "result" \in DOMAIN body THEN Str(body.result) ELSE None

\* Bodies of the result endpoint: the presigned URL, quoted, possibly with
\* surrounding whitespace and characters that need escaping.
ResultBodies ==
  { << "\"", "https://s3/o", "\"" >>,
    << " ", "\"", "https://s3/", " ", "o", "\"", "\n" >> }

Whitespace == {" ", "\n", "\t"}
\* str.strip(chars): the characters of chars removed from both ends.
RECURSIVE StripLeft(_, _)
StripLeft(s, chars) ==
  IF s # << >> /\ s[1] \in chars THEN StripLeft(Tail(s), chars) ELSE s
RECURSIVE StripRight(_, _)
StripRight(s, chars) ==
  IF s # << >> /\ s[Len(s)] \in chars THEN StripRight(SubSeq(s, 1, Len(s) - 1), chars) ELSE s
Strip(s, chars) == StripRight(StripLeft(s, chars), chars)

\* requote_uri: characters that may not appear in a URI are percent-encoded.
requote_uri(s) == [k \in 1..Len(s) |-> IF s[k] = " " THEN "%20" ELSE s[k]]

\* resp.text.strip().strip('"') followed by requote_uri
S3UrlOf(body) == requote_uri(Strip(Strip(body, Whitespace), {"\""}))

(* ------------------------------- messages ------------------------------ *)
MsgMissingPageId == << "Missing pageId" >>
MsgHttp(code) == << "HTTP ", ToString(code) >>
MsgMissingTaskId == << "Missing taskId" >>
MsgMissingResultUrl == << "Missing result URL" >>
MsgProgressFailed(code) ==
  << "Failed to fetch task progress (HTTP ", ToString(code), ")" >>
MsgTimeout(tid, t) ==
  << "Task " >> \o tid \o << " did not complete within ", ToString(t), " seconds" >>
MsgDownloadFailed(code) ==
  << "Failed to download PDF from S3 (HTTP ", ToString(code), ")" >>
\* str(e) of an exception raised by the HTTP library or the JSON parser.
MsgConnectionError == << "ConnectionError" >>
MsgJsonError == << "JSONDecodeError" >>

(* -------------------------------- state -------------------------------- *)
VARIABLES
  pages,        \* the lines of pages.txt
  i,            \* number of pages whose loop iteration has ended
  pc,           \* position of the script
  results,      \* the results list
  files,        \* names of the files that exist under EXPORT_DIR
  summary,      \* the lines printed by the summary
  page_id, task_id, result_url, s3_url,   \* locals of the loop body
  timeout, interval,                      \* parameters of wait_for_task_completion
  elapsed,                                \* its local counter
  data,         \* the last progress body parsed
  poller,       \* Idle, Polling, Complete, TimedOut, TransportError, Error
  reqs,         \* history: the requests of the current page, with the status answered
  wall,         \* history: seconds since wait_for_task_completion was called
  resultsFrom,  \* history: for each record of results, the index of its page
  resultsKind,  \* history: for each record of results, the stage that failed
  triggered,    \* history: the indices of the pages an export request was sent for
  succeeded     \* history: indices of the pages whose download completed

vars == << pages, i, pc, results, files, summary, page_id, task_id, result_url,
           s3_url, timeout, interval, elapsed, data, poller, reqs, wall,
           resultsFrom, resultsKind, triggered, succeeded >>

page_url == pages[i + 1]

NoData == [state |-> "none"]

PageLists == UNION {[1..n -> PageUrls] : n \in 1..MaxPages}

\* The state before the first iteration, for the given page lists and
\* parameters of wait_for_task_completion.
InitWith(lists, timeouts, intervals) ==
  /\ pages \in lists
  /\ i = 0
  /\ pc = "next"
  /\ results = << >>
  /\ files = {}
  /\ summary = << >>
  /\ page_id = << >>
  /\ task_id = << >>
  /\ result_url = None
  /\ s3_url = << >>
  /\ timeout \in timeouts
  /\ interval \in intervals
  /\ elapsed = 0
  /\ data = NoData
  /\ poller = "Idle"
  /\ reqs = << >>
  /\ wall = 0
  /\ resultsFrom = << >>
  /\ resultsKind = << >>
  /\ triggered = << >>
  /\ succeeded = {}

\* The batch: every list of up to MaxPages pages (pages.txt is not empty,
\* line 31), the poller polling every second for MaxTimeout seconds.
Init == InitWith(PageLists, {MaxTimeout}, {1})

\* One page, with every timeout and interval within the bounds.
InitPoller == InitWith([1..1 -> PageUrls], 0..MaxTimeout, 1..MaxInterval)

\* One page, of every shape of URL.
InitResolver == InitWith([1..1 -> ResolverUrls], {MaxTimeout}, {1})

\* Lists of pages with titles, and every single page.
InitTitles ==
  InitWith([1..1 -> PageUrls] \cup UNION {[1..n -> TitleUrls] : n \in 1..MaxPages},
           {MaxTimeout}, {1})

\* The history of requests: the request, the status answered (0 when the
\* request raised instead of answering) and the value of elapsed when the
\* request was sent.
Logged(req, status) ==
  Append(reqs, [req |-> req, status |-> status, elapsed |-> elapsed])

\* Mutant of AppendFailure: the record is appended but the iteration goes on
\* (a missing continue).
AppendFailureWithoutContinue(kind, reason) ==
  /\ results' = Append(results, [url |-> page_url, file |-> None, status |-> reason])
  /\ resultsFrom' = Append(resultsFrom, i + 1)
  /\ resultsKind' = Append(resultsKind, kind)
  /\ UNCHANGED << i, pc >>

\* results.append((page_url, None, reason)) followed by continue, or the
\* except clause, which ends the iteration as well.  kind names the stage
\* that failed; it is not part of the record.
AppendFailure(kind, reason) ==
  /\ results' = Append(results, [url |-> page_url, file |-> None, status |-> reason])
  /\ resultsFrom' = Append(resultsFrom, i + 1)
  /\ resultsKind' = Append(resultsKind, kind)
  /\ i' = i + 1
  /\ pc' = "next"

\* The locals as a new iteration finds them: all are assigned before use.
FreshLocals ==
  /\ task_id' = << >>
  /\ result_url' = None
  /\ s3_url' = << >>
  /\ elapsed' = 0
  /\ data' = NoData
  /\ poller' = "Idle"
  /\ reqs' = << >>
  /\ wall' = 0

(* ------------------------- the loop: lines 94-106 ---------------------- *)
\* urlparse(page_url) raises ValueError outside every try block: the
\* script ends with a traceback.
UrlparseError ==
  /\ pc = "next" /\ i < Len(pages)
  /\ UrlparseRaises(page_url)
  /\ pc' = "crashed"
  /\ UNCHANGED << pages, triggered, i, results, files, summary, page_id, timeout, interval,
                  resultsFrom, resultsKind, succeeded >>
  /\ FreshLocals

\* except IndexError: no pageId in the URL.
PageIdNotFound ==
  /\ pc = "next" /\ i < Len(pages)
  /\ ~UrlparseRaises(page_url)
  /\ PageIdMissing(page_url)
  /\ AppendFailure("MalformedUrl", MsgMissingPageId)
  /\ UNCHANGED << pages, triggered, files, summary, page_id, timeout, interval, succeeded >>
  /\ FreshLocals

PageIdFound ==
  /\ pc = "next" /\ i < Len(pages)
  /\ ~UrlparseRaises(page_url)
  /\ ~PageIdMissing(page_url)
  /\ page_id' = PageId(page_url)
  /\ pc' = "export"
  /\ UNCHANGED << pages, triggered, i, results, files, summary, timeout, interval,
                  resultsFrom, resultsKind, succeeded >>
  /\ FreshLocals

(* ---------------- steps 1 and 2: lines 110-124, and 127 ---------------- *)
\* session.get raises: the except clause records str(e).
ExportRaises ==
  /\ pc = "export"
  /\ triggered' = Append(triggered, i + 1)
  /\ reqs' = Logged(ExportRequest(page_id), 0)
  /\ AppendFailure("UnexpectedError", MsgConnectionError)
  /\ UNCHANGED << pages, files, summary, page_id, task_id, result_url, s3_url,
                  timeout, interval, elapsed, data, poller, wall, succeeded >>

ExportRejected ==
  /\ pc = "export"
  /\ triggered' = Append(triggered, i + 1)
  /\ \E status \in StatusCodes \ {200} :
       /\ reqs' = Logged(ExportRequest(page_id), status)
       /\ AppendFailure("ExportRequestFailed", MsgHttp(status))
  /\ UNCHANGED << pages, files, summary, page_id, task_id, result_url, s3_url,
                  timeout, interval, elapsed, data, poller, wall, succeeded >>

ExportWithoutTaskId ==
  /\ pc = "export"
  /\ triggered' = Append(triggered, i + 1)
  /\ \E meta \in MetaTags :
       /\ ~MetaHasTaskId(meta)
       /\ reqs' = Logged(ExportRequest(page_id), 200)
       /\ AppendFailure("TaskIdNotFound", MsgMissingTaskId)
  /\ UNCHANGED << pages, files, summary, page_id, task_id, result_url, s3_url,
                  timeout, interval, elapsed, data, poller, wall, succeeded >>

\* The task id is found and wait_for_task_completion(task_id) is entered.
ExportStarted ==
  /\ pc = "export"
  /\ triggered' = Append(triggered, i + 1)
  /\ \E meta \in MetaTags :
       /\ MetaHasTaskId(meta)
       /\ reqs' = Logged(ExportRequest(page_id), 200)
       /\ task_id' = meta.content.v
  /\ elapsed' = 0
  /\ wall' = 0
  /\ poller' = "Polling"
  /\ pc' = "poll"
  /\ UNCHANGED << pages, i, results, files, summary, page_id, result_url, s3_url,
                  timeout, interval, data, resultsFrom, resultsKind, succeeded >>

(* ------------- wait_for_task_completion: lines 55-69 ------------------- *)
\* Seconds a status request may take to answer.
ReqDelays == {0, 1}

\* Mutant of LoopGuard: one poll more (while elapsed <= timeout).
LoopGuardInclusive == elapsed <= timeout

\* The guard of the while loop.
LoopGuard == elapsed < timeout

\* The loop ends without a return: TimeoutError, recorded by the except clause.
PollTimeout ==
  /\ pc = "poll"
  /\ ~LoopGuard
  /\ poller' = "TimedOut"
  /\ AppendFailure("TaskTimeout", MsgTimeout(task_id, timeout))
  /\ UNCHANGED << pages, triggered, files, summary, page_id, task_id, result_url, s3_url,
                  timeout, interval, elapsed, data, reqs, wall, succeeded >>

\* session.get or resp.json() raises.
PollRaises ==
  /\ pc = "poll"
  /\ LoopGuard
  /\ \E d \in ReqDelays, status \in {0, 200} :
       /\ wall' = wall + d
       /\ reqs' = Logged(ProgressRequest(task_id), status)
       /\ AppendFailure("UnexpectedError", IF status = 0 THEN MsgConnectionError ELSE MsgJsonError)
  /\ poller' = "Error"
  /\ UNCHANGED << pages, triggered, files, summary, page_id, task_id, result_url, s3_url,
                  timeout, interval, elapsed, data, succeeded >>

\* Mutant of PollRejected: a rejected status request is retried after a sleep.
PollRejectedRetries ==
  /\ pc = "poll"
  /\ elapsed < timeout
  /\ \E d \in ReqDelays, status \in StatusCodes \ {200} :
       /\ wall' = wall + d + interval
       /\ reqs' = Logged(ProgressRequest(task_id), status)
  /\ elapsed' = elapsed + interval
  /\ UNCHANGED << pages, triggered, i, pc, results, files, summary, page_id, task_id, result_url,
                  s3_url, timeout, interval, data, poller, resultsFrom, resultsKind, succeeded >>

\* resp.status_code != 200: RuntimeError, recorded by the except clause.
PollRejected ==
  /\ pc = "poll"
  /\ LoopGuard
  /\ \E d \in ReqDelays, status \in StatusCodes \ {200} :
       /\ wall' = wall + d
       /\ reqs' = Logged(ProgressRequest(task_id), status)
       /\ AppendFailure("TaskProgressFetchFailed", MsgProgressFailed(status))
  /\ poller' = "TransportError"
  /\ UNCHANGED << pages, triggered, files, summary, page_id, task_id, result_url, s3_url,
                  timeout, interval, elapsed, data, succeeded >>

\* Mutant of IsComplete: if progress > 100.
IsCompleteStrict(body) == GetProgress(body) > 100

\* if progress >= 100
IsComplete(body) == GetProgress(body) >= 100

\* progress >= 100: return data.get("result").
PollComplete ==
  /\ pc = "poll"
  /\ LoopGuard
  /\ \E d \in ReqDelays, body \in ProgressBodies :
       /\ IsComplete(body)
       /\ wall' = wall + d
       /\ reqs' = Logged(ProgressRequest(task_id), 200)
       /\ data' = body
       /\ result_url' = GetResult(body)
  /\ poller' = "Complete"
  /\ pc' = "returned"
  /\ UNCHANGED << pages, triggered, i, results, files, summary, page_id, task_id, s3_url,
                  timeout, interval, elapsed, resultsFrom, resultsKind, succeeded >>

\* Mutant of PollSleep: elapsed counts the time the request took as well.
PollSleepCountsRequest ==
  /\ pc = "poll"
  /\ elapsed < timeout
  /\ \E d \in ReqDelays, body \in ProgressBodies :
       /\ GetProgress(body) < 100
       /\ wall' = wall + d + interval
       /\ elapsed' = elapsed + d + interval
       /\ reqs' = Logged(ProgressRequest(task_id), 200)
       /\ data' = body
  /\ UNCHANGED << pages, triggered, i, pc, results, files, summary, page_id, task_id, result_url,
                  s3_url, timeout, interval, poller, resultsFrom, resultsKind, succeeded >>

\* progress < 100: time.sleep(interval); elapsed += interval.
PollSleep ==
  /\ pc = "poll"
  /\ LoopGuard
  /\ \E d \in ReqDelays, body \in ProgressBodies :
       /\ ~IsComplete(body)
       /\ wall' = wall + d + interval
       /\ reqs' = Logged(ProgressRequest(task_id), 200)
       /\ data' = body
  /\ elapsed' = elapsed + interval
  /\ UNCHANGED << pages, triggered, i, pc, results, files, summary, page_id, task_id, result_url,
                  s3_url, timeout, interval, poller, resultsFrom, resultsKind, succeeded >>

(* ------------------------ step 3: lines 128-134 ------------------------ *)
\* The locals of wait_for_task_completion end with its return.
FrameDropped ==
  /\ elapsed' = 0
  /\ data' = NoData
  /\ wall' = 0

ResultMissing ==
  /\ pc = "returned"
  /\ ~Truthy(result_url)
  /\ AppendFailure("MissingResultUrl", MsgMissingResultUrl)
  /\ FrameDropped
  /\ UNCHANGED << pages, triggered, files, summary, page_id, task_id, result_url, s3_url,
                  timeout, interval, poller, reqs, succeeded >>

\* Mutant of Resolve: the base is put in front of every reference.
ResolveAlwaysPrefixed(ref) == BASE_URL \o ref

\* if result_url.startswith("/"): result_url = BASE_URL + result_url
Resolve(ref) == IF StartsWith(ref, Slash) THEN BASE_URL \o ref ELSE ref

ResultResolved ==
  /\ pc = "returned"
  /\ Truthy(result_url)
  /\ result_url' = Str(Resolve(result_url.v))
  /\ pc' = "fetch"
  /\ FrameDropped
  /\ UNCHANGED << pages, triggered, i, results, files, summary, page_id, task_id, s3_url,
                  timeout, interval, poller, reqs, resultsFrom, resultsKind, succeeded >>

(* ------------------------ step 4: lines 136-143 ------------------------ *)
FetchRaises ==
  /\ pc = "fetch"
  /\ reqs' = Logged(ResultRequest(result_url.v), 0)
  /\ AppendFailure("UnexpectedError", MsgConnectionError)
  /\ UNCHANGED << pages, triggered, files, summary, page_id, task_id, result_url, s3_url,
                  timeout, interval, elapsed, data, poller, wall, succeeded >>

\* Mutant of FetchRejected: the status of the result fetch is not looked at.
FetchRejectedFallsThrough ==
  /\ pc = "fetch"
  /\ \E status \in StatusCodes \ {200} :
       reqs' = Logged(ResultRequest(result_url.v), status)
  /\ s3_url' = << >>
  /\ pc' = "download"
  /\ UNCHANGED << pages, triggered, i, results, files, summary, page_id, task_id, result_url,
                  timeout, interval, elapsed, data, poller, wall, resultsFrom, resultsKind, succeeded >>

FetchRejected ==
  /\ pc = "fetch"
  /\ \E status \in StatusCodes \ {200} :
       /\ reqs' = Logged(ResultRequest(result_url.v), status)
       /\ AppendFailure("ResultFetchFailed", MsgHttp(status))
  /\ UNCHANGED << pages, triggered, files, summary, page_id, task_id, result_url, s3_url,
                  timeout, interval, elapsed, data, poller, wall, succeeded >>

FetchOk ==
  /\ pc = "fetch"
  /\ \E body \in ResultBodies :
       /\ reqs' = Logged(ResultRequest(result_url.v), 200)
       /\ s3_url' = S3UrlOf(body)
  /\ pc' = "download"
  /\ UNCHANGED << pages, triggered, i, results, files, summary, page_id, task_id, result_url,
                  timeout, interval, elapsed, data, poller, wall, resultsFrom, resultsKind, succeeded >>

(* ------------- step 5 and download_pdf: lines 146-148, 71-86 ----------- *)
\* requests.get raises before any byte is written.
DownloadRaises ==
  /\ pc = "download"
  /\ reqs' = Logged(S3Request(s3_url), 0)
  /\ AppendFailure("UnexpectedError", MsgConnectionError)
  /\ UNCHANGED << pages, triggered, files, summary, page_id, task_id, result_url, s3_url,
                  timeout, interval, elapsed, data, poller, wall, succeeded >>

\* Mutant of DownloadRejected: the file is opened before the status is looked at.
DownloadRejectedCreatesFile ==
  /\ pc = "download"
  /\ triggered' = triggered
  /\ \E status \in StatusCodes \ {200, 304} :
       /\ reqs' = Logged(S3Request(s3_url), status)
       /\ AppendFailure("DownloadFailed", MsgDownloadFailed(status))
  /\ files' = files \cup {Filename(page_url)}
  /\ UNCHANGED << pages, summary, page_id, task_id, result_url, s3_url,
                  timeout, interval, elapsed, data, poller, wall, succeeded >>

\* Any status other than 200 and 304: RuntimeError, no file is opened.
DownloadRejected ==
  /\ pc = "download"
  /\ \E status \in StatusCodes \ {200, 304} :
       /\ reqs' = Logged(S3Request(s3_url), status)
       /\ AppendFailure("DownloadFailed", MsgDownloadFailed(status))
  /\ UNCHANGED << pages, triggered, files, summary, page_id, task_id, result_url, s3_url,
                  timeout, interval, elapsed, data, poller, wall, succeeded >>

\* The stream breaks after the file was opened: the file stays, truncated.
DownloadInterrupted ==
  /\ pc = "download"
  /\ \E status \in {200, 304} :
       reqs' = Logged(S3Request(s3_url), status)
  /\ files' = files \cup {Filename(page_url)}
  /\ AppendFailure("UnexpectedError", MsgConnectionError)
  /\ UNCHANGED << pages, triggered, summary, page_id, task_id, result_url, s3_url,
                  timeout, interval, elapsed, data, poller, wall, succeeded >>

\* The file is written and download_pdf returns: the try block ends, and
\* with it the iteration.  Nothing is appended to results.
DownloadOk ==
  /\ pc = "download"
  /\ \E status \in {200, 304} :
       reqs' = Logged(S3Request(s3_url), status)
  /\ files' = files \cup {Filename(page_url)}
  /\ succeeded' = succeeded \cup {i + 1}
  /\ i' = i + 1
  /\ pc' = "next"
  /\ UNCHANGED << pages, triggered, results, summary, page_id, task_id, result_url, s3_url,
                  timeout, interval, elapsed, data, poller, wall, resultsFrom, resultsKind >>

(* --------------------------- summary: 157-162 -------------------------- *)
SummaryLine(r) ==
  IF Truthy(r.file) THEN [url |-> r.url, ok |-> TRUE, text |-> r.file.v]
  ELSE [url |-> r.url, ok |-> FALSE, text |-> r.status]

Summary ==
  /\ pc = "next" /\ i = Len(pages)
  /\ summary' = [k \in 1..Len(results) |-> SummaryLine(results[k])]
  /\ pc' = "done"
  /\ UNCHANGED << pages, triggered, i, results, files, page_id, task_id, result_url, s3_url,
                  timeout, interval, elapsed, data, poller, reqs, wall,
                  resultsFrom, resultsKind, succeeded >>

Next ==
  \/ UrlparseError \/ PageIdNotFound \/ PageIdFound
  \/ ExportRaises \/ ExportRejected \/ ExportWithoutTaskId \/ ExportStarted
  \/ PollTimeout \/ PollRaises \/ PollRejected \/ PollComplete \/ PollSleep
  \/ ResultMissing \/ ResultResolved
  \/ FetchRaises \/ FetchRejected \/ FetchOk
  \/ DownloadRaises \/ DownloadRejected \/ DownloadInterrupted \/ DownloadOk
  \/ Summary

Spec == Init /\ [][Next]_vars

SpecPoller == InitPoller /\ [][Next]_vars

SpecResolver == InitResolver /\ [][Next]_vars

SpecTitles == InitTitles /\ [][Next]_vars

(* ======================= properties of the batch ======================= *)
\* Positions in reqs of the status requests of the current page.
PollIndices == {k \in 1..Len(reqs) : reqs[k].req.to = "progress"}
PollCount == Cardinality(PollIndices)
RequestsTo(to) == {k \in 1..Len(reqs) : reqs[k].req.to = to}
LoopFinished == i = Len(pages) /\ pc \in {"next", "done"}

\* C1: when the loop has finished, results has one record per input page
\* and the k-th record carries the k-th input URL.
C1_OneRecordPerInputPage ==
  LoopFinished =>
    /\ Len(results) = Len(pages)
    /\ \A k \in 1..Len(results) : results[k].url = pages[k]

\* C2: a page whose stages all succeeded is recorded as a Success carrying
\* the path of the written file, named after the sanitized last path
\* segment, and the summary reports it as a success.
C2_SuccessIsRecorded ==
  \A k \in succeeded :
    /\ Filename(pages[k]) \in files
    /\ \E j \in 1..Len(results) :
         /\ resultsFrom[j] = k
         /\ results[j].url = pages[k]
         /\ results[j].file = Str(Filename(pages[k]))
         /\ pc = "done" => summary[j].ok

\* C3: no failure while handling a page aborts the batch: the script never
\* ends on an uncaught error, and every page whose iteration ended without
\* a completed download has a Failure record.
C3_NoFailureAbortsTheBatch ==
  /\ pc # "crashed"
  /\ \A k \in 1..i :
       k \notin succeeded =>
         \E j \in 1..Len(results) :
           /\ resultsFrom[j] = k
           /\ results[j].url = pages[k]
           /\ ~Truthy(results[j].file)

\* C4: results holds at most one record for each input entry processed so
\* far, and its URLs are in the order of the input list.
C4_AtMostOneRecordInInputOrder ==
  /\ Len(resultsFrom) = Len(results)
  /\ \A j \in 1..Len(results) :
       /\ resultsFrom[j] \in 1..i
       /\ results[j].url = pages[resultsFrom[j]]
  /\ \A j, k \in 1..Len(results) : j < k => resultsFrom[j] < resultsFrom[k]

\* Two pages failed, the first one through the catch-all except clause.
C4_Witness ==
  /\ i = 2
  /\ Len(results) = 2
  /\ results[1].status = MsgConnectionError
  /\ results[2].status = MsgMissingPageId

(* ======================= properties of the poller ====================== *)
\* C5: the poller returns at the first response with progress >= 100: as
\* long as it polls every response so far was below 100, and when it
\* returns after k+1 status requests the last body has progress >= 100, the
\* value returned is the result field of that body and elapsed is k times
\* the interval, below the timeout.
C5_CompletesAtFirstFullProgress ==
  /\ (pc = "poll" /\ PollCount > 0) => GetProgress(data) < 100
  /\ pc = "returned" =>
       /\ poller = "Complete"
       /\ PollCount >= 1
       /\ reqs[Len(reqs)].req.to = "progress"
       /\ reqs[Len(reqs)].status = 200
       /\ GetProgress(data) >= 100
       /\ result_url = GetResult(data)
       /\ elapsed = (PollCount - 1) * interval
       /\ elapsed < timeout

\* The second response is the first one at 100: two requests, one sleep.
C5_Witness ==
  /\ pc = "returned"
  /\ PollCount = 2
  /\ elapsed = interval
  /\ result_url = Str(RelativeResult)

\* C6: no status request is sent once elapsed >= timeout, and a call whose
\* responses were all 200 with progress below 100 ends with the timeout
\* error naming the task and the timeout, without a result.
C6_TimeoutStopsPolling ==
  /\ \A k \in PollIndices : reqs[k].elapsed < timeout
  /\ poller = "TimedOut" =>
       /\ elapsed >= timeout
       /\ elapsed = PollCount * interval
       /\ \A k \in PollIndices : reqs[k].status = 200
       /\ result_url = None
       /\ RequestsTo("result") = {} /\ RequestsTo("s3") = {}
       /\ Len(results) >= 1
       /\ results[Len(results)] =
            [url |-> pages[i], file |-> None, status |-> MsgTimeout(task_id, timeout)]

\* The timeout is reached after two polls.
C6_Witness ==
  /\ poller = "TimedOut"
  /\ PollCount = 2
  /\ timeout > interval

\* C7 as stated: once timeout seconds of wall-clock time have passed since
\* the call began, the poller sends no further status request.
C7_WallClockTimeout ==
  (pc = "poll" /\ wall >= timeout) => ~LoopGuard

\* C7 as amended: the timeout counts the time slept only: elapsed is the
\* interval times the number of answered polls, whatever the requests
\* took; the call times out when that sum reaches the timeout, at a
\* wall-clock time of at least timeout.
C7_TimeoutCountsSleepOnly ==
  /\ pc = "poll" =>
       /\ elapsed = PollCount * interval
       /\ wall >= elapsed
  /\ poller = "TimedOut" =>
       /\ elapsed = PollCount * interval
       /\ elapsed >= timeout
       /\ wall >= elapsed

\* The call timed out later than timeout seconds after it began.
C7_Witness ==
  /\ poller = "TimedOut"
  /\ timeout > 0
  /\ wall > timeout
  /\ elapsed = timeout

\* C8: a status request answered with another status than 200 is the last
\* request of its page: the poller fails with the progress error carrying
\* that status, and the page is recorded as a Failure without a result
\* fetch or a download.
C8_ProgressRejectionIsFinal ==
  \A k \in PollIndices :
    reqs[k].status \notin {0, 200} =>
      /\ k = Len(reqs)
      /\ poller = "TransportError"
      /\ pc \in {"next", "done"}
      /\ RequestsTo("result") = {} /\ RequestsTo("s3") = {}
      /\ i >= 1 /\ Len(results) >= 1
      /\ resultsFrom[Len(results)] = i
      /\ results[Len(results)] =
           [url |-> pages[i], file |-> None, status |-> MsgProgressFailed(reqs[k].status)]

\* The second status request of a page is rejected.
C8_Witness ==
  /\ poller = "TransportError"
  /\ PollCount = 2
  /\ reqs[Len(reqs)].status = 500

\* C9: when the poller completes without a result, or with an empty one,
\* the page gets exactly one record, with the reason "Missing result URL",
\* and neither the result fetch nor the download is requested.
C9_MissingResultUrl ==
  (poller = "Complete" /\ pc # "returned" /\ result_url \in {None, Str(<< >>)}) =>
    /\ pc \in {"next", "done"}
    /\ RequestsTo("result") = {} /\ RequestsTo("s3") = {}
    /\ i >= 1
    /\ Cardinality({j \in 1..Len(results) : resultsFrom[j] = i}) = 1
    /\ results[Len(results)] =
         [url |-> pages[i], file |-> None, status |-> MsgMissingResultUrl]

\* The poller completed with an empty result field.
C9_Witness ==
  /\ poller = "Complete"
  /\ pc = "next"
  /\ result_url = Str(<< >>)
  /\ PollCount = 2

\* C10: no request to the object store carries the session's credentials;
\* every request to the trigger, progress and result endpoints carries them
\* and the X-Atlassian-Token: no-check header.
C10_CredentialsStayWithThePlatform ==
  \A k \in 1..Len(reqs) :
    LET r == reqs[k].req
    IN /\ r.to = "s3" => r.auth = NoAuth
       /\ r.to \in {"export", "progress", "result"} =>
            (r.auth = session.auth /\ CsrfHeader \in r.headers)

\* All four endpoints were asked for one page.
C10_Witness ==
  /\ RequestsTo("export") # {}
  /\ RequestsTo("progress") # {}
  /\ RequestsTo("result") # {}
  /\ RequestsTo("s3") # {}

(* ============== properties of the downloader and the resolvers ========= *)
\* A step that sends a request to the endpoint `to`.
Sent(to) == Len(reqs') = Len(reqs) + 1 /\ reqs'[Len(reqs')].req.to = to
LastStatus == reqs[Len(reqs)].status

\* C11: the download succeeds on the statuses 200 and 304 only: on any other
\* status no file is created or changed and the page gets a Failure record
\* carrying that status; on 200 and 304 the file is opened and no such
\* record is made.
C11_DownloadStatusDecides ==
  [][Sent("s3") =>
       LET st == reqs'[Len(reqs')].status
       IN /\ st \notin {0, 200, 304} =>
               /\ files' = files
               /\ succeeded' = succeeded
               /\ results' = Append(results, [url |-> page_url, file |-> None,
                                              status |-> MsgDownloadFailed(st)])
               /\ i' = i + 1 /\ pc' = "next"
          /\ st \in {200, 304} =>
               /\ Filename(page_url) \in files'
               /\ \A j \in 1..Len(results') :
                    resultsFrom'[j] = i + 1 => results'[j].status # MsgDownloadFailed(st)
     ]_vars

\* The object store answered 500: a Failure record and no file.
C11_Witness ==
  /\ pc = "next" /\ i >= 1
  /\ RequestsTo("s3") # {}
  /\ LastStatus = 500
  /\ Filename(pages[i]) \notin files
  /\ results[Len(results)].status = MsgDownloadFailed(500)

\* C12: the URL fetched for a result reference is the base followed by the
\* reference when the reference begins with "/", and the reference itself
\* otherwise; a fetch answered with another status than 200 records a
\* Failure and no download is requested.
C12_ResultUrlRule ==
  /\ [](\A k \in RequestsTo("result") :
          /\ reqs[k].req.url = result_url.v
          /\ reqs[k].req.url \in {<< "https://h", "/", "r" >>, << "https://h/r" >>}
          /\ reqs[k].status # 200 =>
               /\ k = Len(reqs)
               /\ RequestsTo("s3") = {}
               /\ pc \in {"next", "done"}
               /\ resultsFrom[Len(results)] = i
               /\ reqs[k].status # 0 => results[Len(results)].status = MsgHttp(reqs[k].status))
  /\ [][(pc = "returned" /\ pc' = "fetch") =>
          /\ result_url = Str(RelativeResult) => result_url' = Str(<< "https://h", "/", "r" >>)
          /\ result_url = Str(AbsoluteResult) => result_url' = Str(<< "https://h/r" >>)
          /\ result_url'.v = IF Head(result_url.v) = "/"
                             THEN BASE_URL \o result_url.v ELSE result_url.v
       ]_vars

\* A relative reference was fetched under the base and rejected.
C12_Witness ==
  /\ pc = "next"
  /\ RequestsTo("result") # {}
  /\ reqs[Len(reqs)].req.url = << "https://h", "/", "r" >>
  /\ LastStatus = 500
  /\ results[Len(results)].status = MsgHttp(500)

(* ===================== properties of the URL resolver ================== *)
\* The page being handled, or the one whose iteration has just ended.
HandledUrl == IF pc \in {"next", "done"} THEN pages[i] ELSE pages[i + 1]

MarkerAt(path, k) == k + 6 <= Len(path) /\ SubSeq(path, k, k + 6) = SepPages
HasMarker(path) == \E k \in 1..Len(path) : MarkerAt(path, k)

\* id is the run of characters without "/" that follows the first "/pages/"
\* of path, up to the next "/" or the end of the path.
IsIdAfterMarker(path, id) ==
  \E k \in 1..Len(path) :
    /\ MarkerAt(path, k)
    /\ \A j \in 1..(k - 1) : ~MarkerAt(path, j)
    /\ k + 6 + Len(id) <= Len(path)
    /\ SubSeq(path, k + 7, k + 6 + Len(id)) = id
    /\ "/" \notin Range(id)
    /\ (k + 6 + Len(id) = Len(path) \/ path[k + 7 + Len(id)] = "/")

\* C13: for a page URL whose path contains /pages/{id}/..., the page id
\* extracted is the segment that follows /pages/ up to the next "/", that id
\* is the pageId of the export request, and the extraction does not fail.
C13_PageIdIsSegmentAfterMarker ==
  /\ pc \in {"export", "poll", "returned", "fetch", "download"} =>
       IsIdAfterMarker(pages[i + 1].path, page_id)
  /\ \A k \in RequestsTo("export") :
       /\ IsIdAfterMarker(HandledUrl.path, page_id)
       /\ reqs[k].req.url =
            << "https://h", "/wiki/spaces/flyingpdf/pdfpageexport.action?pageId=" >> \o page_id
  /\ (Len(results) >= 1 /\ resultsKind[Len(results)] = "MalformedUrl") =>
       ~HasMarker(pages[resultsFrom[Len(results)]].path)

\* The export of page 12 was requested for https://h/w/pages/12/T%20a.
C13_Witness ==
  /\ RequestsTo("export") # {}
  /\ HandledUrl = UrlTitleEscaped
  /\ page_id = << "1", "2" >>
  /\ reqs[1].req.url =
       << "https://h", "/wiki/spaces/flyingpdf/pdfpageexport.action?pageId=", "1", "2" >>

\* The path has no segment after /pages/: the marker is absent, or the
\* path ends with it.
NoSegmentAfterMarker(path) ==
  \A k \in 1..Len(path) : MarkerAt(path, k) => k + 6 = Len(path)

\* C14: a page whose URL has no segment following /pages/ gets a Failure
\* record for a malformed URL and no request is sent for it.
C14_NoSegmentIsMalformedUrl ==
  /\ pc \in {"export", "poll", "returned", "fetch", "download"} =>
       ~NoSegmentAfterMarker(pages[i + 1].path)
  /\ \A k \in 1..i :
       (NoSegmentAfterMarker(pages[k].path) /\ ~UrlparseRaises(pages[k])) =>
         \E j \in 1..Len(results) :
           resultsFrom[j] = k /\ resultsKind[j] = "MalformedUrl"

(* ======================= properties of the batch ======================= *)
\* C15: in a run, at most one export request is sent for a given page
\* identifier, also when the input list names the same page more than once.
C15_OneTriggerPerPageId ==
  \A a, b \in 1..Len(triggered) :
    PageId(pages[triggered[a]]) = PageId(pages[triggered[b]]) => a = b

NamedKinds ==
  { "MalformedUrl", "ExportRequestFailed", "TaskIdNotFound",
    "TaskProgressFetchFailed", "TaskTimeout", "MissingResultUrl",
    "ResultFetchFailed", "DownloadFailed" }

\* C16: failures of different kinds are recorded with different reasons; in
\* particular a rejected export request and a rejected result fetch with
\* the same status code do not leave the same reason.
C16_ReasonTellsTheKind ==
  \A j, k \in 1..Len(results) :
    ( /\ resultsKind[j] \in NamedKinds
      /\ resultsKind[k] \in NamedKinds
      /\ resultsKind[j] # resultsKind[k] ) =>
        results[j].status # results[k].status

\* C17: no file of a page that succeeded is overwritten by another page that
\* succeeded: the files are as many as the pages that succeeded.
C17_OneFilePerSucceededPage ==
  /\ \A j, k \in succeeded :
       pages[j] # pages[k] => Filename(pages[j]) # Filename(pages[k])
  /\ LoopFinished =>
       Cardinality({ Filename(pages[j]) : j \in succeeded })
         = Cardinality({ pages[j] : j \in succeeded })

(* ===================== properties of the task poller =================== *)
\* The status request just answered 200 with a body that parsed as JSON.
PollParsed ==
  /\ Sent("progress")
  /\ reqs'[Len(reqs')].status = 200
  /\ poller' # "Error"

\* C18: a 200 progress response without the progress field counts as
\* progress 0, one without state has the empty state; neither is an error:
\* without progress the poller sleeps one interval, stays Polling and never
\* returns Complete on that response.
C18_MissingFieldsDefault ==
  /\ [][ (PollParsed /\ "progress" \notin DOMAIN data') =>
           /\ GetProgress(data') = 0
           /\ pc' = "poll" /\ poller' = "Polling"
           /\ elapsed' = elapsed + interval
           /\ wall' >= wall + interval
           /\ results' = results /\ i' = i
       ]_vars
  /\ [][ (PollParsed /\ "state" \notin DOMAIN data') =>
           /\ GetState(data') = ""
           /\ results' = results /\ i' = i
           /\ pc' \in {"poll", "returned"}
       ]_vars
  /\ [](pc = "returned" => "progress" \in DOMAIN data)

\* The first status request was answered without progress and the poller is
\* about to poll again.
C18_Witness ==
  /\ pc = "poll" /\ poller = "Polling"
  /\ data = [state |-> "done", result |-> RelativeResult]
  /\ PollCount = 1
  /\ elapsed = interval
  /\ LoopGuard

(* ====================== properties of the pipeline ===================== *)
\* The iteration of page k has ended: it left a record or its file.
PageEnded(k) ==
  k \in succeeded \/ \E j \in 1..Len(resultsFrom) : resultsFrom[j] = k

\* C19: a status poll is sent only after the export request was answered 200
\* with a task id, a result fetch only after the poller returned Complete
\* with a non-empty result, a download only after the result fetch was
\* answered 200; and a request is sent for a page only after the iterations
\* of all pages before it have ended.
C19_StagesAreGated ==
  /\ [](\A k \in 1..Len(reqs) :
          /\ reqs[k].req.to = "export" => k = 1
          /\ reqs[k].req.to = "progress" =>
               /\ k > 1
               /\ reqs[1].req.to = "export" /\ reqs[1].status = 200
               /\ task_id # << >>
               /\ reqs[k].req.url = ProgressUrl(task_id)
               /\ \A j \in 2..(k - 1) :
                    reqs[j].req.to = "progress" /\ reqs[j].status = 200
          /\ reqs[k].req.to = "result" =>
               /\ k > 2
               /\ reqs[k - 1].req.to = "progress" /\ reqs[k - 1].status = 200
               /\ poller = "Complete"
               /\ Truthy(result_url)
          /\ reqs[k].req.to = "s3" =>
               /\ k > 3
               /\ reqs[k - 1].req.to = "result" /\ reqs[k - 1].status = 200)
  /\ [][ Len(reqs') = Len(reqs) + 1 =>
           /\ i' \in {i, i + 1}
           /\ \A k \in 1..i : PageEnded(k)
           /\ ~PageEnded(i + 1)
           /\ reqs'[1].req.url = ExportUrl(PageId(pages[i + 1]))
       ]_vars
  /\ [](\A a, b \in 1..Len(triggered) : a < b => triggered[a] < triggered[b])

\* The second page went through the five stages with two status polls.
C19_Witness ==
  /\ pc = "next" /\ i = 2
  /\ Len(triggered) = 2
  /\ PollCount = 2
  /\ RequestsTo("s3") # {}
  /\ 2 \in succeeded

(* ============================= termination ============================= *)
\* C20: a call of wait_for_task_completion sends at most
\* ceil(timeout / interval) status requests, and the script has not stopped
\* before the summary: in every state short of the summary a step of the
\* script is possible.
C20_BatchReachesSummary ==
  /\ (PollCount = 0 \/ (PollCount - 1) * interval < timeout)
  /\ (pc = "done" \/ ENABLED Next)
====
